---- MODULE Spec2Model ----
(***************************************************************************)
(* Model of staticStackAnalyzer.c (MIPS32 static stack analyzer).          *)
(*                                                                         *)
(* The program reads a disassembly line by line, builds a linked list of   *)
(* functionInfo_t records (build phase, main lines 379-482), resolves the   *)
(* deepest stack usage of every record (getDeepestStackUsage, main lines    *)
(* 486-491), sorts the list (sortForOwn / sortForDeepest) and prints it.    *)
(*                                                                         *)
(* heap  : the malloc'ed functionInfo_t records, in allocation order        *)
(*         (index = discovery order); 0 stands for the null pointer.        *)
(* list  : the chain firstFunctionInfo -> next -> ... as heap indices.      *)
(* Text is modelled as sequences of one-character strings.                  *)
(***************************************************************************)
EXTENDS Integers, Sequences, FiniteSets, TLC

VARIABLES
    heap,         \* Seq of functionInfo_t
    list,         \* firstFunctionInfo chain, as heap indices
    pc,           \* position of main: "build", "resolve", "sort", "done", "failed"
    cursor,       \* currentFunctionInfo (heap index, 0 = null)
    stack,        \* active getDeepestStackUsage frames [t |-> target, i |-> loop index]
    diag,         \* "Error: Jump Target not found!" lines printed: <<name, address>>
    sorting,      \* main's sorting option character
    inputBuffer,  \* main's inputBuffer (last line fgets stored)
    feofFlag,     \* feof(disassemblyInput) # 0
    env,          \* the disassembly still to come (what fgets will deliver)
    hist          \* history (observation only): what the run did so far

vars == <<heap, list, pc, cursor, stack, diag, sorting, inputBuffer, feofFlag, env, hist>>

-----------------------------------------------------------------------------
(* Bounds of the model *)

MaxFuncs == 3
MaxEdges == 2
MaxDepth == 6
MaxLines == 4

(* uint32_t addition.  Every quantity of the model stays far below 2^32    *)
(* (frames of a few bytes, addresses below 256), so no addition wraps.     *)
Add32(a, b) == a + b

Max(S) == CHOOSE x \in S : \A y \in S : y <= x

Range(s) == {s[k] : k \in 1..Len(s)}

-----------------------------------------------------------------------------
(* Text: a C string is the sequence of its characters (one-character       *)
(* strings), the terminating NUL left out.                                 *)

HexDigits == <<"0", "1", "2", "3", "4", "5", "6", "7", "8", "9", "a", "b", "c", "d", "e", "f">>

DecDigits == <<"0", "1", "2", "3", "4", "5", "6", "7", "8", "9">>

WhiteSpace == {" ", "\t", "\n"}

DigitValue(digits, c) == (CHOOSE d \in 1..Len(digits) : digits[d] = c) - 1

RECURSIVE Hex(_)
(* printf("%x") as objdump prints an address *)
Hex(n) == IF n < 16 THEN <<HexDigits[n + 1]>>
          ELSE Hex(n \div 16) \o <<HexDigits[(n % 16) + 1]>>

RECURSIVE Dec(_)
Dec(n) == IF n < 0 THEN <<"-">> \o Dec(0 - n)
          ELSE IF n < 10 THEN <<DecDigits[n + 1]>>
          ELSE Dec(n \div 10) \o <<DecDigits[(n % 10) + 1]>>

RECURSIVE Pad0(_, _)
(* "%08x": zero padding to a width *)
Pad0(s, width) == IF Len(s) >= width THEN s ELSE Pad0(<<"0">> \o s, width)

From(s, i) == SubSeq(s, i, Len(s))

(* strstr: the index of the first occurrence of needle, 0 for a null result *)
strstr(s, needle) ==
    LET at == {i \in 1..(Len(s) - Len(needle) + 1) :
                  SubSeq(s, i, i + Len(needle) - 1) = needle}
    IN  IF at = {} THEN 0 ELSE CHOOSE i \in at : \A j \in at : i <= j

(* strchr / strrchr: the first / last index of the character, 0 for null *)
strchr(s, c) ==
    LET at == {i \in 1..Len(s) : s[i] = c}
    IN  IF at = {} THEN 0 ELSE CHOOSE i \in at : \A j \in at : i <= j

strrchr(s, c) ==
    LET at == {i \in 1..Len(s) : s[i] = c}
    IN  IF at = {} THEN 0 ELSE CHOOSE i \in at : \A j \in at : i >= j

RECURSIVE SkipSpace(_)
SkipSpace(s) == IF s # <<>> /\ s[1] \in WhiteSpace THEN SkipSpace(Tail(s)) ELSE s

RECURSIVE Digits(_, _, _, _)
(* the value of the longest prefix of s made of digits of the base, acc so far *)
Digits(s, digits, base, acc) ==
    IF s # <<>> /\ s[1] \in Range(digits)
    THEN Digits(Tail(s), digits, base, acc * base + DigitValue(digits, s[1]))
    ELSE acc

(* strtoul(s, NULL, 16): white space, an optional 0x, hexadecimal digits;  *)
(* 0 when no digit follows                                                 *)
strtoul16(s) ==
    LET t == SkipSpace(s)
        u == IF Len(t) >= 3 /\ t[1] = "0" /\ t[2] = "x" /\ t[3] \in Range(HexDigits)
             THEN From(t, 3) ELSE t
    IN  Digits(u, HexDigits, 16, 0)

(* strtol(s, NULL, 10): white space, an optional sign, decimal digits *)
strtol10(s) ==
    LET t == SkipSpace(s)
    IN  IF t # <<>> /\ t[1] = "-" THEN 0 - Digits(Tail(t), DecDigits, 10, 0)
        ELSE IF t # <<>> /\ t[1] = "+" THEN Digits(Tail(t), DecDigits, 10, 0)
        ELSE Digits(t, DecDigits, 10, 0)

(* the string literals of main *)
sectionString == <<"D", "i", "s", "a", "s", "s", "e", "m", "b", "l", "y", " ", "o", "f", " ", "s", "e", "c", "t", "i", "o", "n", " ">>

textSectionString == <<"D", "i", "s", "a", "s", "s", "e", "m", "b", "l", "y", " ", "o", "f", " ", "s", "e", "c", "t", "i", "o", "n", " ", ".", "t", "e", "x", "t">>

labelEndString == <<">", ":">>

stackPointerString == <<" ", "\t", "a", "d", "d", "i", "u", "\t", "s", "p", ",", "s", "p", ",">>

branchString == <<" ", "\t", "b">>

jumpString == <<" ", "\t", "j">>

jrRaString == <<" ", "\t", "j", "r", "\t", "r", "a">>

jalrString == <<" ", "\t", "j", "a", "l", "r", "\t">>

jrString == <<" ", "\t", "j", "r", "\t">>

-----------------------------------------------------------------------------
(* functionInfo_t as createNewFunctionInfo fills it *)

NewFunctionInfo(name, address) ==
    [ name |-> name, start |-> address, end |-> address,
      deepest |-> 0, ownStack |-> 0, jumpsTo |-> <<>>,
      usesFunctionPointers |-> FALSE, isProcessed |-> FALSE ]

(* findFunctionByAddress: the first record of the chain whose [start, end]  *)
(* holds the address, 0 when there is none.                                 *)
findFunctionByAddress(h, l, address) ==
    LET hits == {k \in 1..Len(l) :
                    h[l[k]].start <= address /\ h[l[k]].end >= address}
    IN  IF hits = {} THEN 0
        ELSE l[CHOOSE k \in hits : \A m \in hits : k <= m]

NextOf(l, t) ==
    LET k == CHOOSE k \in 1..Len(l) : l[k] = t
    IN  IF k < Len(l) THEN l[k + 1] ELSE 0

(* createNewFunctionInfo: <<>> stands for the null result, <<record>> for   *)
(* a new record                                                            *)
createNewFunctionInfo(label) ==
    LET address == strtoul16(label)
        name    == strchr(label, "<")
        nameEnd == strchr(label, ">")
    IN  IF name = 0 \/ nameEnd = 0 THEN <<>>
        ELSE <<NewFunctionInfo(SubSeq(label, name + 1, nameEnd - 1), address)>>

(* cleanupFunctionInfo: keep the targets outside [start, end] *)
cleanupFunctionInfo(h, t) ==
    [h EXCEPT ![t].jumpsTo =
        SelectSeq(h[t].jumpsTo, LAMBDA a : a > h[t].end \/ a < h[t].start)]

(* the jalr test left out: an indirect call handled like a direct one *)
ControlTransferNoJalr(fi, buf) ==
    IF strstr(buf, jrRaString) # 0 THEN fi
    ELSE IF strstr(buf, jrString) # 0 THEN fi
    ELSE LET comma == strrchr(buf, ",")
             addressPosition == IF comma = 0 THEN strrchr(buf, "\t") ELSE comma
         IN  [fi EXCEPT !.jumpsTo = Append(@, strtoul16(From(buf, addressPosition + 1)))]

(* main 458-479: a line holding " \tb" or " \tj" *)
ControlTransfer(fi, buf) ==
    IF strstr(buf, jrRaString) # 0 THEN fi
    ELSE IF strstr(buf, jalrString) # 0 THEN [fi EXCEPT !.usesFunctionPointers = TRUE]
    ELSE IF strstr(buf, jrString) # 0 THEN fi
    ELSE LET comma == strrchr(buf, ",")
             addressPosition == IF comma = 0 THEN strrchr(buf, "\t") ELSE comma
         IN  [fi EXCEPT !.jumpsTo = Append(@, strtoul16(From(buf, addressPosition + 1)))]

(* main 432-480: a line that is neither a section header nor a function    *)
(* label, applied to the open record                                       *)
ProcessInstruction(fi, buf) ==
    LET address == strtoul16(buf)
        f1 == IF address > fi.end THEN [fi EXCEPT !.end = address] ELSE fi
        sp == strstr(buf, stackPointerString)
    IN  IF sp # 0
        THEN LET movement == strtol10(From(buf, sp + Len(stackPointerString)))
             IN  IF movement < 0 THEN [f1 EXCEPT !.ownStack = Add32(@, 0 - movement)]
                 ELSE f1
        ELSE IF strstr(buf, branchString) # 0 \/ strstr(buf, jumpString) # 0
        THEN ControlTransfer(f1, buf)
        ELSE f1

(* main 403 *)
IsSectionLine(buf) == strstr(buf, sectionString) # 0

(* main 419-423: a label whose name does not start with '.' *)
IsFunctionLabel(buf) ==
    /\ strstr(buf, labelEndString) # 0
    /\ LET labelName == strchr(buf, "<") + 1
       IN  labelName <= Len(buf) /\ buf[labelName] # "."

-----------------------------------------------------------------------------
(* getDeepestStackUsage, one step of the recursion per action.  A frame    *)
(* [t, i] is an activation working on record t whose loop index is i       *)
(* (1-based: the edge examined next is jumpsTo[i]).                        *)

Top == stack[Len(stack)]

Pop == SubSeq(stack, 1, Len(stack) - 1)

OnStack(t) == \E k \in 1..Len(stack) : stack[k].t = t

(* the flag never set: nothing stops a second expansion *)
MarkProcessedNever(h, t) == h

(* line 208: target->isProcessed = true, before the edges are walked *)
MarkProcessed(h, t) == [h EXCEPT ![t].isProcessed = TRUE]

(* the comparison left out: the last edge wins instead of the deepest *)
TakeBranchAlways(h, t, thisBranch) == [h EXCEPT ![t].deepest = thisBranch]

(* lines 218-221: if (thisBranch > target->deepest) target->deepest = thisBranch *)
TakeBranch(h, t, thisBranch) ==
    IF thisBranch > h[t].deepest THEN [h EXCEPT ![t].deepest = thisBranch] ELSE h

(* the own stack never added *)
AddOwnStackNever(h, t) == h

(* line 223: target->deepest += target->ownStack *)
AddOwnStack(h, t) == [h EXCEPT ![t].deepest = Add32(h[t].deepest, h[t].ownStack)]

(* a mis-handling of the in-progress case: the own frame added on return *)
ReturnedValuePlusOwn(h, t) == h[t].deepest + h[t].ownStack

(* line 226: return target->deepest (for a record in progress: its partial value) *)
ReturnedValue(h, t) == h[t].deepest

(* break instead of continue: the remaining edges are not walked *)
SkipEdgeBreak(fr) == [fr EXCEPT !.i = Len(heap[fr.t].jumpsTo) + 1]

(* lines 212-216: the edge resolves to no record: print and continue *)
SkipEdge(fr) == [fr EXCEPT !.i = fr.i + 1]

NextFrame(fr) == [fr EXCEPT !.i = fr.i + 1]

(* main 487-490, record not yet processed: enter getDeepestStackUsage *)
ResolveEnter ==
    /\ pc = "resolve" /\ stack = <<>> /\ cursor # 0
    /\ ~heap[cursor].isProcessed
    /\ heap' = MarkProcessed(heap, cursor)
    /\ stack' = <<[t |-> cursor, i |-> 1]>>
    /\ hist' = [hist EXCEPT !.calls = @ + 1]
    /\ UNCHANGED <<list, pc, cursor, diag, sorting, inputBuffer, feofFlag, env>>

(* main 487-490, record already processed: the call returns at once *)
ResolveSkip ==
    /\ pc = "resolve" /\ stack = <<>> /\ cursor # 0
    /\ heap[cursor].isProcessed
    /\ cursor' = NextOf(list, cursor)
    /\ hist' = [hist EXCEPT !.calls = @ + 1]
    /\ UNCHANGED <<heap, list, pc, stack, diag, sorting, inputBuffer, feofFlag, env>>

(* main 487: the chain is exhausted *)
ResolveEnd ==
    /\ pc = "resolve" /\ stack = <<>> /\ cursor = 0
    /\ pc' = "sort"
    /\ UNCHANGED <<heap, list, cursor, stack, diag, sorting, inputBuffer, feofFlag, env, hist>>

(* lines 211-216 *)
JumpTargetNotFound ==
    /\ pc = "resolve" /\ stack # <<>>
    /\ Top.i <= Len(heap[Top.t].jumpsTo)
    /\ LET address == heap[Top.t].jumpsTo[Top.i]
       IN  /\ findFunctionByAddress(heap, list, address) = 0
           /\ diag' = Append(diag, <<heap[Top.t].name, address>>)
           /\ stack' = Append(Pop, SkipEdge(Top))
    /\ UNCHANGED <<heap, list, pc, cursor, sorting, inputBuffer, feofFlag, env, hist>>

(* lines 211, 217-221 with a jumpTarget whose isProcessed is already set:   *)
(* the inner call returns jumpTarget->deepest as it stands                  *)
CallProcessed ==
    /\ pc = "resolve" /\ stack # <<>>
    /\ Top.i <= Len(heap[Top.t].jumpsTo)
    /\ LET jumpTarget == findFunctionByAddress(heap, list, heap[Top.t].jumpsTo[Top.i])
       IN  /\ jumpTarget # 0
           /\ heap[jumpTarget].isProcessed
           /\ heap' = TakeBranch(heap, Top.t, ReturnedValue(heap, jumpTarget))
           /\ stack' = Append(Pop, NextFrame(Top))
           /\ hist' = [hist EXCEPT !.cycleHit = @ \/ OnStack(jumpTarget), !.calls = @ + 1]
    /\ UNCHANGED <<list, pc, cursor, diag, sorting, inputBuffer, feofFlag, env>>

(* lines 211, 217 with an unprocessed jumpTarget: recurse *)
CallEnter ==
    /\ pc = "resolve" /\ stack # <<>>
    /\ Len(stack) < MaxDepth
    /\ Top.i <= Len(heap[Top.t].jumpsTo)
    /\ LET jumpTarget == findFunctionByAddress(heap, list, heap[Top.t].jumpsTo[Top.i])
       IN  /\ jumpTarget # 0
           /\ ~heap[jumpTarget].isProcessed
           /\ heap' = MarkProcessed(heap, jumpTarget)
           /\ stack' = Append(stack, [t |-> jumpTarget, i |-> 1])
    /\ hist' = [hist EXCEPT !.calls = @ + 1]
    /\ UNCHANGED <<list, pc, cursor, diag, sorting, inputBuffer, feofFlag, env>>

(* lines 209, 223, 226: the loop is over; add the own stack and return.     *)
(* The caller is either another activation (lines 217-221) or main (490).   *)
Return ==
    /\ pc = "resolve" /\ stack # <<>>
    /\ Top.i > Len(heap[Top.t].jumpsTo)
    /\ LET h1 == AddOwnStack(heap, Top.t)
       IN  IF Len(stack) > 1
           THEN /\ heap' = TakeBranch(h1, Pop[Len(Pop)].t, ReturnedValue(h1, Top.t))
                /\ stack' = Append(SubSeq(Pop, 1, Len(Pop) - 1), NextFrame(Pop[Len(Pop)]))
                /\ cursor' = cursor
           ELSE /\ heap' = h1
                /\ stack' = <<>>
                /\ cursor' = NextOf(list, cursor)
    /\ hist' = [hist EXCEPT !.finalOrder = Append(@, Top.t)]
    /\ UNCHANGED <<list, pc, diag, sorting, inputBuffer, feofFlag, env>>

-----------------------------------------------------------------------------
(* sortForDeepest / sortForOwn: bubble sort of the chain, descending.       *)

(* <= for <: equal keys are swapped too *)
ShouldSwapOrEqual(a, b) == a <= b

(* lines 245, 256 (285, 296): the comparison that decides a swap *)
ShouldSwap(a, b) == a < b

SwapAt(l, p) == [l EXCEPT ![p] = l[p + 1], ![p + 1] = l[p]]

RECURSIVE SortPass(_, _, _, _)
(* one run of the outer loop body for index i: compares positions (p, p+1), *)
(* p = 1 (the head, lines 245-252) and then p = 2..i (lines 254-265)        *)
SortPass(l, key, p, i) ==
    IF p > i THEN l
    ELSE SortPass(IF ShouldSwap(key[l[p]], key[l[p + 1]]) THEN SwapAt(l, p) ELSE l,
                  key, p + 1, i)

RECURSIVE SortLoop(_, _, _)
(* lines 243-266: for (i = count-1; i > 0; i--) *)
SortLoop(l, key, i) ==
    IF i <= 0 THEN l ELSE SortLoop(SortPass(l, key, 1, i), key, i - 1)

DeepestKey == [k \in 1..Len(heap) |-> heap[k].deepest]

OwnKey == [k \in 1..Len(heap) |-> heap[k].ownStack]

sortForDeepest ==
    /\ pc = "sort"
    /\ sorting' = "d"
    /\ list' = SortLoop(list, DeepestKey, Len(list) - 1)
    /\ pc' = "done"
    /\ UNCHANGED <<heap, cursor, stack, diag, inputBuffer, feofFlag, env, hist>>

sortForOwn ==
    /\ pc = "sort"
    /\ sorting' = "o"
    /\ list' = SortLoop(list, OwnKey, Len(list) - 1)
    /\ pc' = "done"
    /\ UNCHANGED <<heap, cursor, stack, diag, inputBuffer, feofFlag, env, hist>>

(* main 496-504 with any other sorting character: no case matches *)
NoSort ==
    /\ pc = "sort"
    /\ sorting' = "x"
    /\ pc' = "done"
    /\ UNCHANGED <<heap, list, cursor, stack, diag, inputBuffer, feofFlag, env, hist>>

-----------------------------------------------------------------------------
(* Functions of the modelled inputs: function k is named fk and starts at  *)
(* address 16k                                                             *)

FuncStart(k) == 16 * k

FuncEnd(k) == 16 * k + 12

FuncName(k) == <<"f", <<"1", "2", "3", "4", "5", "6", "7", "8", "9">>[k]>>

-----------------------------------------------------------------------------
(* The disassembly: objdump's output, every line ending in a newline.      *)
(* env.addr is the address of the next instruction, env.left the number of *)
(* lines the loop of main may still be handed.                             *)

Encoding == <<"0", "0", "0", "0", "0", "0", "0", "0">>

Symbol == <<" ", "<", "f", "1", "+", "0", "x", "4", ">">>

InstrLine(address, mnemonic, operands) ==
    Hex(address) \o <<":", "\t">> \o Encoding \o <<" ", "\t">> \o mnemonic
        \o (IF operands = <<>> THEN <<>> ELSE <<"\t">> \o operands) \o <<"\n">>

LabelLine(address, name) ==
    Pad0(Hex(address), 8) \o <<" ", "<">> \o name \o <<">", ":", "\n">>

TextHeader == <<"D", "i", "s", "a", "s", "s", "e", "m", "b", "l", "y", " ", "o", "f", " ", "s", "e", "c", "t", "i", "o", "n", " ", ".", "t", "e", "x", "t", ":", "\n">>

OtherHeader == <<"D", "i", "s", "a", "s", "s", "e", "m", "b", "l", "y", " ", "o", "f", " ", "s", "e", "c", "t", "i", "o", "n", " ", ".", "i", "n", "i", "t", ":", "\n">>

BlankLine == <<"\n">>

Immediates == {-16, 8}

(* where a direct jump or branch of the input may point: the first         *)
(* function, the open function, the instruction after the next             *)
Targets == {heap[1].start, heap[cursor].start, env.addr + 4}

(* the lines the input may hold next, each with what it is: kind, the      *)
(* bytes of address it takes, the stack growth it states                   *)
Catalogue ==
    {[text |-> LabelLine(env.addr, FuncName(hist.labels + 1)),
      kind |-> "label", size |-> 0, grow |-> 0]}
    \cup {[text |-> LabelLine(env.addr, <<".", "L", "1">>),
           kind |-> "ilabel", size |-> 0, grow |-> 0]}
    \cup {[text |-> InstrLine(env.addr, <<"a", "d", "d", "i", "u">>, <<"s", "p", ",", "s", "p", ",">> \o Dec(imm)),
           kind |-> "addiu", size |-> 4, grow |-> IF imm < 0 THEN 0 - imm ELSE 0] :
             imm \in Immediates}
    \cup {[text |-> InstrLine(env.addr, <<"j", "a", "l">>, Hex(t) \o Symbol),
           kind |-> "direct", size |-> 4, grow |-> 0] : t \in Targets}
    \cup {[text |-> InstrLine(env.addr, <<"b", "n", "e", "z">>, <<"v", "0", ",">> \o Hex(heap[cursor].start) \o Symbol),
           kind |-> "direct", size |-> 4, grow |-> 0]}
    \cup {[text |-> InstrLine(env.addr, <<"j", "r">>, <<"r", "a">>),
           kind |-> "jrra", size |-> 4, grow |-> 0]}
    \cup {[text |-> InstrLine(env.addr, <<"j", "a", "l", "r">>, <<"t", "9">>),
           kind |-> "jalr", size |-> 4, grow |-> 0]}
    \cup {[text |-> InstrLine(env.addr, <<"j", "r">>, <<"v", "0">>),
           kind |-> "jr", size |-> 4, grow |-> 0]}
    \cup {[text |-> InstrLine(env.addr, <<"b", "r", "e", "a", "k">>, <<>>),
           kind |-> "notarget", size |-> 4, grow |-> 0]}
    \cup {[text |-> InstrLine(env.addr, <<"n", "o", "p">>, <<>>),
           kind |-> "plain", size |-> 4, grow |-> 0]}
    \cup {[text |-> BlankLine, kind |-> "blank", size |-> 0, grow |-> 0]}
    \cup {[text |-> TextHeader, kind |-> "text", size |-> 0, grow |-> 0]}
    \cup {[text |-> OtherHeader, kind |-> "other", size |-> 0, grow |-> 0]}

FirstLabel == LabelLine(FuncStart(1), FuncName(1))

(* the content of main's loop buffer before fgets has ever filled it: the  *)
(* array is uninitialised; a build either overlays it with the buffer of   *)
(* lines 383-385 (the first label) or leaves fresh, zeroed stack           *)
Uninitialised == <<"uninitialised">>

(* what inputBuffer holds after an fgets that read nothing.  The array is  *)
(* declared in the loop body, so its value is formally indeterminate in    *)
(* each iteration; it is the same stack slot every time and nothing else   *)
(* writes it, so every build finds the previous line in it.                *)
Leftover ==
    IF inputBuffer = Uninitialised THEN {FirstLabel, <<>>} ELSE {inputBuffer}

(* fgets of line 399: a line of the input, or end of file *)
Fgets ==
    {[buf |-> c.text, eof |-> FALSE, kind |-> c.kind, grow |-> c.grow,
      env |-> [addr |-> env.addr + c.size, left |-> env.left - 1]] :
        c \in IF env.left > 0 THEN Catalogue ELSE {}}
    \cup {[buf |-> b, eof |-> TRUE, kind |-> "none", grow |-> 0, env |-> env] :
            b \in Leftover}

(* what the run has seen, after a line of kind r.kind was handed to the     *)
(* open record and `created` records were made                             *)
Observe(r, created) ==
    LET open == cursor
        e1 == IF r.grow > 0
              THEN [hist.expected EXCEPT ![open] = @ + r.grow] ELSE hist.expected
        t1 == IF r.kind \in {"direct", "jrra", "jalr", "jr", "notarget"}
              THEN [hist.transfers EXCEPT ![open] = @ \cup {r.kind}]
              ELSE hist.transfers
    IN  [hist EXCEPT !.kind = r.kind,
                     !.labels = @ + (IF r.kind = "label" THEN 1 ELSE 0),
                     !.expected = e1 \o [k \in 1..created |-> 0],
                     !.transfers = t1 \o [k \in 1..created |-> {}]]

(* the end of an iteration: back to the test of line 390, and past the     *)
(* loop (line 486) at end of file                                          *)
LoopBack(r, buf, eof, h, cur) ==
    /\ inputBuffer' = buf
    /\ feofFlag' = eof
    /\ env' = r.env
    /\ heap' = h
    /\ list' = [k \in 1..Len(h) |-> k]
    /\ pc' = IF eof THEN "resolve" ELSE "build"
    /\ cursor' = IF eof THEN 1 ELSE cur
    /\ hist' = Observe(r, Len(h) - Len(heap))
    /\ UNCHANGED <<stack, diag, sorting>>

(* main 392-396 *)
SomethingWentWrong ==
    /\ pc = "build" /\ cursor = 0
    /\ pc' = "failed"
    /\ UNCHANGED <<heap, list, cursor, stack, diag, sorting, inputBuffer, feofFlag, env, hist>>

(* main 399-415: a section header.  After a header other than .text,       *)
(* findNextTextSection reads on to the next .text header and the line      *)
(* after it, or to the end of file; the fgets of line 411 then reads the   *)
(* line that follows (the blank line after a .text header met here, the     *)
(* first label after a skip), or nothing at end of file.                   *)
NewSection ==
    /\ pc = "build" /\ cursor # 0
    /\ \E r \in Fgets :
         /\ IsSectionLine(r.buf)
         /\ \E found \in BOOLEAN :
              LET h1 == cleanupFunctionInfo(heap, cursor)
                  isText == strstr(r.buf, textSectionString) # 0
                  eof == r.eof \/ ~found
                  buf == IF eof THEN r.buf
                         ELSE IF isText THEN BlankLine
                         ELSE LabelLine(env.addr, FuncName(hist.labels + 1))
                  created == createNewFunctionInfo(buf)
                  h2 == h1 \o created
              IN  LoopBack([r EXCEPT !.kind = IF created # <<>> THEN "label" ELSE r.kind],
                           buf, eof, h2, IF created = <<>> THEN 0 ELSE Len(h2))

(* main 399, 417-429: the label of a function *)
NewLabel ==
    /\ pc = "build" /\ cursor # 0
    /\ \E r \in Fgets :
         /\ ~IsSectionLine(r.buf)
         /\ IsFunctionLabel(r.buf)
         /\ LET h1 == cleanupFunctionInfo(heap, cursor)
                h2 == h1 \o createNewFunctionInfo(r.buf)
            IN  LoopBack(r, r.buf, r.eof, h2, IF Len(h2) = Len(h1) THEN 0 ELSE Len(h2))

(* main 399, 432-482: any other line *)
Instruction ==
    /\ pc = "build" /\ cursor # 0
    /\ \E r \in Fgets :
         /\ ~IsSectionLine(r.buf)
         /\ ~IsFunctionLabel(r.buf)
         /\ LoopBack(r, r.buf, r.eof,
                     [heap EXCEPT ![cursor] = ProcessInstruction(@, r.buf)], cursor)

Build == SomethingWentWrong \/ NewSection \/ NewLabel \/ Instruction

Resolve ==
    \/ ResolveEnter \/ ResolveSkip \/ ResolveEnd
    \/ JumpTargetNotFound \/ CallProcessed \/ CallEnter \/ Return

Report == sortForDeepest \/ sortForOwn \/ NoSort

-----------------------------------------------------------------------------
(* Call graphs the build phase hands to the resolution pass.  Record k      *)
(* covers [16k, 16k+12]; a closed record holds no edge into its own range,  *)
(* the last record (never closed when the input ends inside it) may.        *)

OwnValues == {8, 16}

EdgeTargets(k, n) ==
    {FuncStart(j) : j \in (1..n) \ {k}} \cup {0} \cup (IF k = n THEN {FuncStart(k)} ELSE {})

SeqsUpTo(S, m) == UNION {[1..len -> S] : len \in 0..m}

RECURSIVE EdgeLists(_, _, _)
EdgeLists(k, n, budget) ==
    IF k > n THEN {<<>>}
    ELSE UNION { { <<e>> \o rest : rest \in EdgeLists(k + 1, n, budget - Len(e)) } :
                 e \in SeqsUpTo(EdgeTargets(k, n), budget) }

NoHist(n) ==
    [finalOrder |-> <<>>, cycleHit |-> FALSE, calls |-> 0, kind |-> "none",
     labels |-> n, expected |-> [k \in 1..n |-> 0], transfers |-> [k \in 1..n |-> {}]]

Init ==
    /\ \E n \in 1..MaxFuncs :
         \E own \in [1..n -> OwnValues], edges \in EdgeLists(1, n, MaxEdges) :
            /\ heap = [k \in 1..n |->
                         [NewFunctionInfo(FuncName(k), FuncStart(k)) EXCEPT
                            !.end = FuncEnd(k), !.ownStack = own[k],
                            !.jumpsTo = edges[k]]]
            /\ list = [k \in 1..n |-> k]
    /\ pc = "resolve"
    /\ cursor = 1
    /\ stack = <<>>
    /\ diag = <<>>
    /\ sorting = "d"
    /\ inputBuffer = <<>>
    /\ feofFlag = TRUE
    /\ env = <<>>
    /\ hist = [NoHist(Len(heap)) EXCEPT !.expected = [k \in 1..Len(heap) |-> heap[k].ownStack]]

Next == Resolve \/ Report

Spec == Init /\ [][Next]_vars

(* main at line 390 for the first time: findNextTextSection has found the  *)
(* .text header and the first label has been read and parsed (379-388)     *)
BuildInit ==
    /\ heap = createNewFunctionInfo(FirstLabel)
    /\ list = <<1>>
    /\ pc = "build"
    /\ cursor = 1
    /\ stack = <<>>
    /\ diag = <<>>
    /\ sorting = "d"
    /\ inputBuffer = Uninitialised
    /\ feofFlag = FALSE
    /\ env = [addr |-> FuncStart(1), left |-> MaxLines]
    /\ hist = NoHist(1)

BuildNext == Build \/ Resolve

BuildSpec == BuildInit /\ [][BuildNext]_vars

(* the loops of main and the recursion run on as long as they can *)
FairSpec == Init /\ [][Next]_vars /\ WF_vars(Next)

-----------------------------------------------------------------------------
(* The call graph as the resolver sees it *)

(* main has left the loop of lines 487-491 and stands before the switch *)
PassFinished == pc = "sort"

Funcs == 1..Len(heap)

EdgeTarget(f, i) == findFunctionByAddress(heap, list, heap[f].jumpsTo[i])

Callees(f) == {EdgeTarget(f, i) : i \in 1..Len(heap[f].jumpsTo)} \ {0}

AllEdgesResolve == \A f \in Funcs : \A i \in 1..Len(heap[f].jumpsTo) : EdgeTarget(f, i) # 0

RECURSIVE ReachIn(_, _)
ReachIn(S, n) ==
    IF n = 0 THEN S ELSE ReachIn(S \cup UNION {Callees(g) : g \in S}, n - 1)

(* the records reachable from f by one or more call edges *)
Reachable(f) == ReachIn(Callees(f), Len(heap))

Acyclic == \A f \in Funcs : f \notin Reachable(f)

-----------------------------------------------------------------------------
(* C1: on a call graph without cycles whose edges all resolve, after the   *)
(* resolution pass every function's deepest is its own stack plus the      *)
(* largest deepest among its callees (its own stack alone without edges).  *)
C1_AcyclicDeepest ==
    (PassFinished /\ Acyclic /\ AllEdgesResolve) =>
        \A f \in Funcs :
            heap[f].deepest =
                heap[f].ownStack +
                    (IF heap[f].jumpsTo = <<>> THEN 0
                     ELSE Max({heap[g].deepest : g \in Callees(f)}))

(* A (frame 16, calls B) and B (frame 8, no calls) end with 24 and 8 *)
C1_Witness ==
    /\ PassFinished /\ Len(heap) = 2
    /\ heap[1].ownStack = 16 /\ heap[1].jumpsTo = <<FuncStart(2)>>
    /\ heap[2].ownStack = 8 /\ heap[2].jumpsTo = <<>>
    /\ heap[1].deepest = 24 /\ heap[2].deepest = 8

(* C2: after the resolution pass, on any call graph, deepest >= ownStack   *)
(* for every record.                                                       *)
C2_DeepestAtLeastOwn ==
    PassFinished => \A f \in Funcs : heap[f].deepest >= heap[f].ownStack

(* a finished pass that met a cycle, with a record deeper than its own frame *)
C2_Witness ==
    /\ PassFinished /\ hist.cycleHit
    /\ \E f \in Funcs : heap[f].deepest > heap[f].ownStack

(* no record has two activations of getDeepestStackUsage at once *)
StackDistinct ==
    \A a, b \in 1..Len(stack) : stack[a].t = stack[b].t => a = b

RECURSIVE EdgeCount(_)
EdgeCount(k) == IF k = 0 THEN 0 ELSE Len(heap[k].jumpsTo) + EdgeCount(k - 1)

C3_EventuallyFinished == <>PassFinished

MutualPair16 ==
    /\ Len(heap) = 2
    /\ heap[1].ownStack = 16 /\ heap[1].jumpsTo = <<FuncStart(2)>>
    /\ heap[2].ownStack = 16 /\ heap[2].jumpsTo = <<FuncStart(1)>>

SortKey == IF sorting = "o" THEN OwnKey ELSE DeepestKey

(* C5: for both sort keys the sorted chain is a permutation of the chain   *)
(* before the sort (the discovery order 1..n), is ordered by non-increasing*)
(* key and keeps records of equal key in discovery order.                  *)
C5_SortStable ==
    /\ pc # "done" => list = [k \in 1..Len(heap) |-> k]
    /\ (pc = "done" /\ sorting \in {"o", "d"}) =>
        /\ Len(list) = Len(heap) /\ Range(list) = Funcs
        /\ \A a, b \in 1..Len(list) :
             a < b => /\ SortKey[list[a]] >= SortKey[list[b]]
                      /\ SortKey[list[a]] = SortKey[list[b]] => list[a] < list[b]

(* own stacks 8, 16, 8 sorted by own stack: the 16 moves first, the two    *)
(* 8s keep their order                                                     *)
C5_Witness ==
    /\ pc = "done" /\ sorting = "o"
    /\ list = <<2, 1, 3>>
    /\ heap[1].ownStack = heap[3].ownStack

-----------------------------------------------------------------------------
(* The resolution pass as a function of the graph (the recursion of        *)
(* getDeepestStackUsage followed to its end), used to run it on a graph    *)
(* from which the unresolved edges have been taken out.                    *)

RECURSIVE PassCall(_, _, _), PassLoop(_, _, _, _), PassOver(_, _, _)
PassCall(h, l, t) ==
    IF h[t].isProcessed THEN h ELSE PassLoop(MarkProcessed(h, t), l, t, 1)

PassLoop(h, l, t, i) ==
    IF i > Len(h[t].jumpsTo) THEN AddOwnStack(h, t)
    ELSE LET jumpTarget == findFunctionByAddress(h, l, h[t].jumpsTo[i])
         IN  IF jumpTarget = 0 THEN PassLoop(h, l, t, i + 1)
             ELSE LET h1 == PassCall(h, l, jumpTarget)
                  IN  PassLoop(TakeBranch(h1, t, ReturnedValue(h1, jumpTarget)), l, t, i + 1)

PassOver(h, l, k) ==
    IF k > Len(l) THEN h ELSE PassOver(PassCall(h, l, l[k]), l, k + 1)

DiscoveryOrder == [k \in 1..Len(heap) |-> k]

(* the graph as the pass found it, its unresolved edges removed *)
WithoutUnresolved ==
    [f \in Funcs |->
        [heap[f] EXCEPT
            !.deepest = 0, !.isProcessed = FALSE,
            !.jumpsTo = SelectSeq(heap[f].jumpsTo,
                LAMBDA a : findFunctionByAddress(heap, list, a) # 0)]]

UnresolvedEdges ==
    {<<f, i>> \in Funcs \X (1..MaxEdges + 8) :
        i <= Len(heap[f].jumpsTo) /\ EdgeTarget(f, i) = 0}

(* C6: an edge to an address in no record's range is reported with the     *)
(* function's name and the address, once, and contributes nothing: every   *)
(* deepest is what the pass computes on the graph without those edges.     *)
C6_UnresolvedIsZero ==
    PassFinished =>
        /\ \A f \in Funcs :
             heap[f].deepest = PassOver(WithoutUnresolved, DiscoveryOrder, 1)[f].deepest
        /\ \A e \in UnresolvedEdges :
             <<heap[e[1]].name, heap[e[1]].jumpsTo[e[2]]>> \in Range(diag)
        /\ Len(diag) = Cardinality(UnresolvedEdges)

(* a record whose first edge is unresolved and whose second is a call that *)
(* counts                                                                  *)
C6_Witness ==
    /\ PassFinished
    /\ \E f, g \in Funcs :
         /\ heap[f].jumpsTo = <<0, heap[g].start>>
         /\ f # g
         /\ heap[f].deepest = heap[f].ownStack + heap[g].deepest
         /\ <<heap[f].name, 0>> \in Range(diag)

-----------------------------------------------------------------------------
(* Properties of the build phase (BuildSpec) *)

(* a step in which fgets handed a line of the given kind to the loop *)
Delivered(kind) == env'.left = env.left - 1 /\ hist'.kind = kind

SameEdges == heap'[cursor].jumpsTo = heap[cursor].jumpsTo

SameFlag == heap'[cursor].usesFunctionPointers = heap[cursor].usesFunctionPointers

OnlyIndirect(f) ==
    "jalr" \in hist.transfers[f] /\ hist.transfers[f] \subseteq {"jalr", "jrra", "jr"}

(* C7: a jalr line sets usesFunctionPointers of the open record and adds   *)
(* no edge; jr ra and jr add no edge and leave the flag alone; the flag is *)
(* set exactly on the records that saw a jalr; and a record with own stack *)
(* 32 whose control transfers are register-indirect only ends with         *)
(* deepest = 32 and the flag set.                                          *)
C7_IndirectCall ==
    /\ [][/\ Delivered("jalr") => heap'[cursor].usesFunctionPointers /\ SameEdges
          /\ Delivered("jrra") \/ Delivered("jr") => SameEdges /\ SameFlag]_vars
    /\ [](\A f \in Funcs :
            /\ heap[f].usesFunctionPointers <=> "jalr" \in hist.transfers[f]
            /\ (PassFinished /\ OnlyIndirect(f) /\ heap[f].ownStack = 32) =>
                   heap[f].deepest = 32 /\ heap[f].jumpsTo = <<>>)

(* two addiu sp,sp,-16 and a jalr: own stack 32, deepest 32, flag set *)
C7_Witness ==
    /\ PassFinished
    /\ \E f \in Funcs :
         /\ hist.transfers[f] = {"jalr"}
         /\ hist.expected[f] = 32 /\ heap[f].ownStack = 32
         /\ heap[f].deepest = 32 /\ heap[f].usesFunctionPointers

(* the input is consumed and the resolution pass is about to start *)
PassStarts == pc = "resolve" /\ hist.calls = 0

(* C8: when the resolution pass starts, no record, the last one included,  *)
(* holds an edge into its own [start, end].                                *)
C8_AllRecordsClosed ==
    PassStarts =>
        \A f \in Funcs : \A i \in 1..Len(heap[f].jumpsTo) :
            heap[f].jumpsTo[i] < heap[f].start \/ heap[f].jumpsTo[i] > heap[f].end

(* C9: at the end of the build phase the own stack of every record is the  *)
(* sum of the magnitudes of the negative immediates of the addiu sp,sp     *)
(* lines of the input that belong to it, each line counted once.           *)
C9_OwnStackIsSum ==
    PassStarts => \A f \in Funcs : heap[f].ownStack = hist.expected[f]

(* C10: a line whose mnemonic starts with b or j, that is not jr ra, jalr  *)
(* or jr and holds no target literal, is a plain instruction: no edge is   *)
(* added, the flag is not set, the run goes on.                            *)
C10_NoTargetIsPlain ==
    [][Delivered("notarget") => SameEdges /\ SameFlag /\ pc' = "build"]_vars

====
